---- MODULE Spec2Model ----
(***************************************************************************)
(* A model of PRTAlertBot (bot.py): the posted-alert ledger kept in        *)
(* posted_alerts.json, the fetch / merge / filter / sort steps of run()    *)
(* and its posting loop, over successive invocations of the script.        *)
(*                                                                         *)
(* Texts (entity ids, headers, descriptions) are sequences of one-         *)
(* character strings.  The truncated md5 digest of get_alert_hash is       *)
(* modelled by the digested content string itself (no collisions).         *)
(***************************************************************************)
EXTENDS Naturals, Integers, Sequences, FiniteSets, TLC

\* ------------------------------------------------------------------ bounds
\* most alert entities the feeds serve together at one time
MaxAlerts == 2
\* most records fetched by the poll of a single-run behaviour
MaxRecords == 3
\* most records fetched by the run of a behaviour that must terminate
MaxQueue == 2
\* the per-fingerprint publish counter saturates here
MaxPub == 2

\* ------------------------------------------------------------ text helpers
\* F applied to the value of x: an assignment "y = F(x)" of the code
Pipe(x, F(_)) == CHOOSE y \in {F(v) : v \in {x}} : TRUE
Pipe2(x1, x2, F(_, _)) == CHOOSE y \in {F(v1, v2) : v1 \in {x1}, v2 \in {x2}} : TRUE

Min(S) == CHOOSE x \in S : \A y \in S : x <= y

\* the string made of the characters lo..hi of s
RECURSIVE join(_, _, _)
join(s, lo, hi) ==
  IF lo > hi THEN ""
  ELSE IF lo = hi THEN s[lo]
  ELSE CHOOSE r \in {join(s, lo, m) \o join(s, m + 1, hi) :
                      m \in {(lo + hi) \div 2}} : TRUE

\* "".join(s)
Join(s) == Pipe(s, LAMBDA v : join(v, 1, Len(v)))

\* parts[lo] + .. + parts[hi]
RECURSIVE flatten(_, _, _)
flatten(parts, lo, hi) ==
  IF lo > hi THEN <<>>
  ELSE IF lo = hi THEN parts[lo]
  ELSE CHOOSE r \in {flatten(parts, lo, m) \o flatten(parts, m + 1, hi) :
                      m \in {(lo + hi) \div 2}} : TRUE

Flatten(parts) == Pipe(parts \o <<>>, LAMBDA v : flatten(v, 1, Len(v)))

Digits == {"0", "1", "2", "3", "4", "5", "6", "7", "8", "9"}

DigitVal(c) ==
  CASE c = "0" -> 0 [] c = "1" -> 1 [] c = "2" -> 2 [] c = "3" -> 3
    [] c = "4" -> 4 [] c = "5" -> 5 [] c = "6" -> 6 [] c = "7" -> 7
    [] c = "8" -> 8 [] c = "9" -> 9

\* str.isdigit(): non-empty and every character a digit
isdigit(s) == Len(s) > 0 /\ \A k \in 1..Len(s) : s[k] \in Digits

\* int(s) for a string of decimal digits
RECURSIVE int(_)
int(s) == IF s = <<>> THEN 0
          ELSE 10 * int(SubSeq(s, 1, Len(s) - 1)) + DigitVal(s[Len(s)])

\* ---------------------------------------------------------- format_alert
\* A character is a one-character string; a name in brackets stands for a
\* single code point outside ASCII.
UpperSeq == <<"A", "B", "C", "D", "E", "F", "G", "H", "I", "J", "K", "L", "M",
              "N", "O", "P", "Q", "R", "S", "T", "U", "V", "W", "X", "Y", "Z">>
LowerSeq == <<"a", "b", "c", "d", "e", "f", "g", "h", "i", "j", "k", "l", "m",
              "n", "o", "p", "q", "r", "s", "t", "u", "v", "w", "x", "y", "z">>
Upper == {UpperSeq[k] : k \in 1..26}
Lower == {LowerSeq[k] : k \in 1..26}

\* \w of the re module, on the characters used here
IsWord(c) == c \in Upper \cup Lower \cup Digits \cup {"_"}
\* \s and str.strip()
IsSpace(c) == c \in {" ", "[tab]", "[newline]"}

\* str.lower() of one character
lower(c) == IF c \in Upper
            THEN LowerSeq[CHOOSE k \in 1..26 : UpperSeq[k] = c]
            ELSE c
lower_all(t) == [k \in 1..Len(t) |-> lower(t[k])]

\* is there a \b before position i of t (positions 1..Len(t)+1)
Boundary(t, i) ==
  LET before == i > 1 /\ IsWord(t[i - 1])
      after == i <= Len(t) /\ IsWord(t[i])
  IN  before # after

\* lit occurs in t at position i
OccursAt(t, i, lit, ignorecase) ==
  /\ i + Len(lit) - 1 <= Len(t)
  /\ \A k \in 1..Len(lit) :
       IF ignorecase THEN lower(t[i + k - 1]) = lower(lit[k])
       ELSE t[i + k - 1] = lit[k]

\* "sub in t"
Contains(t, sub) == \E i \in 1..(Len(t) + 1) : OccursAt(t, i, sub, FALSE)

\* str.strip()
lstrip(t) ==
  LET keep == {i \in 1..Len(t) : ~IsSpace(t[i])}
  IN  IF keep = {} THEN <<>>
      ELSE SubSeq(t, CHOOSE i \in keep : \A j \in keep : i <= j, Len(t))
rstrip(t) ==
  LET keep == {i \in 1..Len(t) : ~IsSpace(t[i])}
  IN  IF keep = {} THEN <<>>
      ELSE SubSeq(t, 1, CHOOSE i \in keep : \A j \in keep : i >= j)
strip(t) == Pipe(lstrip(t), rstrip)

\* A scan for matches goes left to right: it takes the first match that
\* starts at or after the current position and resumes behind it.  ends[i]
\* is 0 when no match starts at i, else the position behind that match.
first_from(ends, p) ==
  LET c == {i \in p..Len(ends) : ends[i] # 0}
  IN  IF c = {} THEN Len(ends) + 1 ELSE Min(c)

\* s.R: the positions the scan resumes at within fewer than span matches;
\* s.J[p]: where a scan standing at p stands span matches later
RECURSIVE resume(_, _, _)
resume(s, span, n) ==
  IF span > n THEN s.R
  ELSE CHOOSE r \in
         {resume(s2, 2 * span, n) :
            s2 \in {[R |-> s.R \cup {s.J[p] : p \in s.R},
                     J |-> [p \in 1..(n + 1) |-> s.J[s.J[p]]] \o <<>>]}} : TRUE

\* the start positions of the matches the scan takes
taken(ends) ==
  LET n == Len(ends)
      first == [p \in 1..(n + 1) |-> first_from(ends, p)] \o <<>>
      jump == [p \in 1..(n + 1) |->
                 IF first[p] > n THEN n + 1 ELSE ends[first[p]]] \o <<>>
  IN  Pipe2(first, jump,
            LAMBDA f, j :
              {f[p] : p \in resume([R |-> {1}, J |-> j], 1, n)} \ {n + 1})

\* t with every taken match replaced by with[i], i the start of the match
substitute(t, ends, with) ==
  Pipe(taken(ends),
       LAMBDA starts :
         Flatten([i \in 1..Len(t) |->
                    IF i \in starts THEN with[i]
                    ELSE IF \E c \in starts : c < i /\ i < ends[c] THEN <<>>
                    ELSE <<t[i]>>]))

\* str.replace(old, new): leftmost occurrences that do not overlap
replace(t, old, new) ==
  Pipe([i \in 1..Len(t) |->
          IF OccursAt(t, i, old, FALSE) THEN i + Len(old) ELSE 0] \o <<>>,
       LAMBDA ends : substitute(t, ends, [i \in 1..Len(t) |-> new]))

\* the alternatives of \b(a|b|..)\b that match at position i
WordMatch(t, i, alts, ignorecase) ==
  {k \in 1..Len(alts) :
     /\ Boundary(t, i)
     /\ OccursAt(t, i, alts[k], ignorecase)
     /\ Boundary(t, i + Len(alts[k]))}

\* re.sub(r'\b(a|b|..)\b', new, t), the alternatives tried in order
sub_words(t, alts, new, ignorecase) ==
  Pipe([i \in 1..Len(t) |->
          LET m == WordMatch(t, i, alts, ignorecase)
          IN  IF m # {} THEN i + Len(alts[Min(m)]) ELSE 0] \o <<>>,
       LAMBDA ends : substitute(t, ends, [i \in 1..Len(t) |-> new]))

\* re.search(r'\b(a|b|..)\b', t, re.IGNORECASE)
search_words(t, alts) ==
  \E i \in 1..Len(t) : WordMatch(t, i, alts, TRUE) # {}

\* the end of the run of word characters that starts at i
run_end(t, i) ==
  LET stop == {e \in i..Len(t) : e = Len(t) \/ ~IsWord(t[e + 1])}
  IN  CHOOSE e \in stop : \A f \in stop : e <= f

\* self.known_routes
known_routes ==
  {"1", "2", "4", "6", "7", "8", "11", "12", "13", "14", "15", "16", "17",
   "18", "19L", "20", "21", "22", "24", "26", "27", "28X", "29", "31",
   "36", "38", "39", "40", "41", "43", "44", "48", "51", "51L", "52L",
   "53", "53L", "54", "55", "56", "57", "58", "59", "60", "61A", "61B",
   "61C", "61D", "64", "65", "67", "69", "71", "71A", "71B", "71C", "71D",
   "74", "75", "77", "79", "81", "82", "83", "86", "87", "88", "89", "91",
   "93", "G2", "G3", "G31", "O1", "O12", "O5", "P1", "P10", "P12", "P13",
   "P16", "P17", "P3", "P67", "P68", "P69", "P7", "P71", "P76", "P78",
   "Y1", "Y45", "Y46", "Y47", "Y49"}

BUS == "[bus]"
TRAIN == "[train]"
OutOfService == <<"O", "u", "t", " ", "o", "f", " ", "S", "e", "r", "v", "i", "c", "e">>

\* header.split(':')[0] and header.split(':', 1)[1]
first_colon(t) == CHOOSE i \in 1..Len(t) : t[i] = ":" /\ \A j \in 1..(i - 1) : t[j] # ":"
before_colon(t) == SubSeq(t, 1, first_colon(t) - 1)
after_colon(t) == SubSeq(t, first_colon(t) + 1, Len(t))

\* "Combine header and description"
combine(header, description) ==
  IF description # <<>> /\ description # header
  THEN LET prefix == strip(before_colon(header))
           rest_of_header == strip(after_colon(header))
           header1 ==
             IF /\ Contains(header, <<":">>)
                /\ Contains(lower_all(rest_of_header), lower_all(prefix))
                /\ Len(prefix) > 3
             THEN rest_of_header ELSE header
       IN  header1 \o <<":", " ">> \o description
  ELSE header

\* "Clean up excessive newlines": the two-character marker backslash, n
clean(t) ==
  Pipe(Pipe(replace(t, <<"\\", "n", "\\", "n">>, <<" ", "-", " ">>),
            LAMBDA t1 : replace(t1, <<"\\", "n">>, <<" ">>)),
       strip)

\* re.search(r'\b(OS|O/S|OSS)\b', text, re.IGNORECASE)
is_out_of_service(t) ==
  search_words(t, << <<"O", "S">>, <<"O", "/", "S">>, <<"O", "S", "S">> >>)

\* the three re.sub calls that spell out OSS, O/S and OS
spell_out(t) ==
  Pipe(Pipe(sub_words(t, << <<"O", "S", "S">> >>, OutOfService, TRUE),
            LAMBDA t1 : sub_words(t1, << <<"O", "/", "S">> >>, OutOfService, TRUE)),
       LAMBDA t2 : sub_words(t2, << <<"O", "S">> >>, OutOfService, TRUE))

\* format_time
format_time(time_str) ==
  IF Len(time_str) = 3
  THEN <<time_str[1], ":">> \o SubSeq(time_str, 2, 3)
  ELSE IF Len(time_str) = 4
  THEN SubSeq(time_str, 1, 2) \o <<":">> \o SubSeq(time_str, 3, 4)
  ELSE time_str

\* the lookahead (?=\s*[-–]|\s*[ap]|\s*[IO]B) at position i
skip_space(t, i) ==
  LET stop == {j \in i..(Len(t) + 1) : j > Len(t) \/ ~IsSpace(t[j])}
  IN  CHOOSE j \in stop : \A k \in stop : j <= k
time_cue(t, i) ==
  LET j == skip_space(t, i)
  IN  /\ j <= Len(t)
      /\ \/ t[j] \in {"-", "[endash]", "a", "p"}
         \/ t[j] \in {"I", "O"} /\ j < Len(t) /\ t[j + 1] = "B"

\* \b([0-2]?\d{3})\b at position i: a whole run of three digits, or of four
\* digits the first of which is 0, 1 or 2
time_at(t, i) ==
  /\ Boundary(t, i)
  /\ IsWord(t[i])
  /\ LET e == run_end(t, i)
     IN  /\ \A k \in i..e : t[k] \in Digits
         /\ \/ e - i + 1 = 3
            \/ e - i + 1 = 4 /\ t[i] \in {"0", "1", "2"}
         /\ time_cue(t, e + 1)

\* re.sub of the time pattern with format_time
format_times(t) ==
  Pipe([i \in 1..Len(t) |->
          IF time_at(t, i) THEN run_end(t, i) + 1 ELSE 0] \o <<>>,
       LAMBDA ends :
         substitute(t, ends,
                    [i \in 1..Len(t) |->
                       IF ends[i] # 0 THEN format_time(SubSeq(t, i, ends[i] - 1))
                       ELSE <<>>]))

\* "Replace IB/OB with Inbound/Outbound"
expand(t) ==
  Pipe(Pipe(Pipe(Pipe(Pipe(
    replace(t, <<" ", "I", "B", " ">>, <<" ", "I", "n", "b", "o", "u", "n", "d", " ">>),
    LAMBDA t1 : replace(t1, <<" ", "O", "B", " ">>, <<" ", "O", "u", "t", "b", "o", "u", "n", "d", " ">>)),
    LAMBDA t2 : replace(t2, <<"I", "B", ":">>, <<"I", "n", "b", "o", "u", "n", "d", ":">>)),
    LAMBDA t3 : replace(t3, <<"O", "B", ":">>, <<"O", "u", "t", "b", "o", "u", "n", "d", ":">>)),
    LAMBDA t4 : replace(t4, <<"I", "B", "-">>, <<"I", "n", "b", "o", "u", "n", "d", "-">>)),
    LAMBDA t5 : replace(t5, <<"O", "B", "-">>, <<"O", "u", "t", "b", "o", "u", "n", "d", "-">>))

\* "Add color emojis for train lines"
colorize(t) ==
  Pipe(Pipe(
    sub_words(t, << <<"R", "E", "D">> >>, <<"[red]", " ", "R", "e", "d">>, TRUE),
    LAMBDA t1 : sub_words(t1, << <<"B", "L", "U", "E">> >>,
                          <<"[blue]", " ", "B", "l", "u", "e">>, TRUE)),
    LAMBDA t2 : sub_words(t2, << <<"S", "I", "L", "V", "E", "R">>, <<"S", "L", "V", "R">> >>,
                          <<"[white]", " ", "S", "i", "l", "v", "e", "r">>, TRUE))

\* a match of \b([A-Z]?\d+[A-Z]?)\b: a whole run of word characters made
\* of digits, with at most one capital before and at most one after
route_shape(run) ==
  \E a \in {0, 1}, b \in {0, 1} :
    /\ a + b < Len(run)
    /\ a = 1 => run[1] \in Upper
    /\ b = 1 => run[Len(run)] \in Upper
    /\ \A k \in (1 + a)..(Len(run) - b) : run[k] \in Digits

\* re.findall(route_pattern, text), kept when in self.known_routes, as a set
unique_routes(t) ==
  LET starts == {i \in 1..Len(t) : Boundary(t, i) /\ IsWord(t[i])}
      runs == {SubSeq(t, i, run_end(t, i)) : i \in starts}
  IN  {r \in runs : route_shape(r) /\ Join(r) \in known_routes}

\* the loop that puts route_emoji behind every occurrence of each route
RECURSIVE add_route_emoji(_, _, _)
add_route_emoji(t, routes, route_emoji) ==
  IF routes = {} THEN t
  ELSE LET route == CHOOSE r \in routes : TRUE
       IN  Pipe2(sub_words(t, <<route>>, route \o <<" ", route_emoji>>, FALSE),
                 routes \ {route},
                 LAMBDA t1, rest : add_route_emoji(t1, rest, route_emoji))

\* "Determine feed emoji prefix"
feed_emoji(feed_types, routes) ==
  IF Len(feed_types) > 1 THEN <<BUS, TRAIN>>
  ELSE IF \E k \in 1..Len(feed_types) : feed_types[k] = "train" THEN <<TRAIN>>
  ELSE IF Cardinality(routes) > 0 THEN <<>>
  ELSE <<BUS>>

\* the character limit of a post, and the room left for the prefixes
PostLimit == 300
FullLimit == 280
TruncateAt == 297

\* the same, were the warning emoji put before the feed emoji
annotate_warning_first(oos, text, full, feed_types) ==
  LET routes == unique_routes(full)
      primary_feed == IF feed_types # <<>> THEN feed_types[1] ELSE "bus"
      route_emoji == IF primary_feed = "bus" THEN BUS ELSE TRAIN
      annotated == IF Cardinality(routes) <= 2 /\ Cardinality(routes) > 0
                   THEN add_route_emoji(full, routes, route_emoji)
                   ELSE full
      emoji == feed_emoji(feed_types, routes)
  IN  Pipe(Pipe(annotated,
                LAMBDA a : IF Len(a) <= FullLimit THEN a ELSE text),
           LAMBDA t : IF oos /\ emoji # <<>>
                      THEN <<"[warn]", "[vs16]", " ">> \o emoji \o <<" ">> \o t
                      ELSE IF oos THEN <<"[warn]", "[vs16]", " ">> \o t
                      ELSE IF emoji # <<>> THEN emoji \o <<" ">> \o t
                      ELSE t)

\* format_alert from "Count routes in message" on: text is the text with
\* times formatted, full is text_with_full with its color emojis
annotate(oos, text, full, feed_types) ==
  LET routes == unique_routes(full)
      primary_feed == IF feed_types # <<>> THEN feed_types[1] ELSE "bus"
      route_emoji == IF primary_feed = "bus" THEN BUS ELSE TRAIN
      annotated == IF Cardinality(routes) <= 2 /\ Cardinality(routes) > 0
                   THEN add_route_emoji(full, routes, route_emoji)
                   ELSE full
      emoji == feed_emoji(feed_types, routes)
  IN  Pipe(Pipe(annotated,
                LAMBDA a : IF Len(a) <= FullLimit THEN a ELSE text),
           LAMBDA t : IF oos /\ emoji # <<>>
                      THEN emoji \o <<" ", "[warn]", "[vs16]", " ">> \o t
                      ELSE IF oos THEN <<"[warn]", "[vs16]", " ">> \o t
                      ELSE IF emoji # <<>> THEN emoji \o <<" ">> \o t
                      ELSE t)

\* "Final safety check", were the three dots added to the first 300 characters
truncate_late(t) ==
  IF Len(t) > PostLimit THEN SubSeq(t, 1, PostLimit) \o <<".", ".", ".">> ELSE t

\* "Final safety check"
truncate(t) ==
  IF Len(t) > PostLimit THEN SubSeq(t, 1, TruncateAt) \o <<".", ".", ".">> ELSE t

\* format_alert, for the header and description of the entity: the values
\* of its locals on the way (text after line 134, is_out_of_service,
\* text_with_full after line 164, unique_routes, text after line 207) and
\* the text it returns
format_stages(header, description, feed_types) ==
  Pipe(clean(combine(header, description)),
       LAMBDA text0 :
         Pipe(Pipe(spell_out(text0), format_times),
              LAMBDA text1 :
                Pipe(Pipe(Pipe(text1, expand), colorize),
                     LAMBDA full :
                       Pipe(annotate(is_out_of_service(text0), text1, full, feed_types),
                            LAMBDA text :
                              [clean_text |-> text0,
                               is_out_of_service |-> is_out_of_service(text0),
                               text_with_full |-> full,
                               unique_routes |-> unique_routes(full),
                               text |-> text,
                               post_text |-> truncate(text)]))))

\* format_alert, for the header and description of the entity
format_text(header, description, feed_types) ==
  format_stages(header, description, feed_types).post_text

\* --------------------------------------------------------------- the feeds
\* self.alert_feed_urls, in declaration order
FeedTypes == <<"bus", "train">>

\* The alert entities the upstream feeds may serve.  e1 and e3 carry the
\* same text under different ids; e1 and e4 have ids of equal numeric value.
Entity ==
  [ e1 |-> [id |-> <<"2">>,      header |-> <<"6", "1", "C">>, description |-> <<>>],
    e2 |-> [id |-> <<"1", "0">>, header |-> <<"H", "i">>,      description |-> <<>>],
    e3 |-> [id |-> <<"x">>,      header |-> <<"6", "1", "C">>, description |-> <<>>],
    e4 |-> [id |-> <<"0", "2">>, header |-> <<"O", "S">>,      description |-> <<"7">>] ]

Entities == DOMAIN Entity

\* the entities the feeds serve in the behaviours that span several runs
Served == {"e1", "e2", "e3"}

\* the feed_types lists the merge can build from the records of one poll
MostRecords ==
  CHOOSE n \in {MaxAlerts, MaxRecords, MaxQueue} :
    \A m \in {MaxAlerts, MaxRecords, MaxQueue} : n >= m
FeedTypeLists == UNION {[1..k -> {"bus", "train"}] : k \in 1..MostRecords}

\* format_alert is a function of the entity's texts and of feed_types alone:
\* its results, computed once
post_texts ==
  [entity \in Entities, feed_types \in FeedTypeLists |->
     format_text(Entity[entity].header, Entity[entity].description,
                 feed_types)] @@ <<>>

\* format_alert(entity, feed_types)
format_alert(entity, feed_types) == post_texts[entity, feed_types]

\* get_alert_hash: digest of "header|description"
get_alert_hash(e) ==
  Join(Entity[e].header) \o "|" \o Join(Entity[e].description)

Hashes == {get_alert_hash(e) : e \in Entities}
ServedHashes == {get_alert_hash(e) : e \in Served}

SeqsUpTo(S, n) == UNION {[1..k -> S] : k \in 0..n}

\* what a feed can serve: one entity list per feed type
Feeds ==
  {f \in [{"bus", "train"} -> SeqsUpTo(Served, MaxAlerts)] :
     Len(f["bus"]) + Len(f["train"]) <= MaxAlerts}

\* --------------------------------------------------------------- the ledger
\* posted_alerts.json: absent, a JSON list, or not parseable
NoFile == [kind |-> "absent", data |-> {}]
JsonFile(S) == [kind |-> "json", data |-> S]
Corrupt == [kind |-> "corrupt", data |-> {}]

\* the fingerprints a reader of the file obtains
Readable(d) == IF d.kind = "json" THEN d.data ELSE {}

VARIABLES
  pc,             \* position of the script
  ppc,            \* position inside one iteration of the posting loop
  feed,           \* what the upstream feeds currently serve
  disk,           \* contents of posted_alerts.json
  posted_ids,     \* self.posted_ids
  alerts,         \* run(): alerts, a list of (feed_type, entity)
  alert_feeds,    \* run(): alert_feeds, a dict in insertion order
  alert_entities, \* run(): alert_entities, a dict in insertion order
  alerts_to_post, \* run(): alerts_to_post
  idx,            \* position of the posting loop in alerts_to_post
  posted_count,   \* run(): posted_count
  fetched,        \* history: the feed types this run has requested
  loaded,         \* history: the ledger as loaded by this process
  log,            \* history: the publish attempts of this run, in order
  durable,        \* history: the last completely written ledger
  pubCount,       \* history: successful publishes per fingerprint
  tainted,        \* history: some run crashed or failed a ledger write
  prev,           \* history: how the previous run went
  env,            \* history: what this process has met so far
  call            \* a call of format_alert: its arguments and its result

vars == <<pc, ppc, feed, disk, posted_ids, alerts, alert_feeds,
          alert_entities, alerts_to_post, idx, posted_count, fetched, loaded,
          log, durable, pubCount, tainted, prev, env, call>>

runVars == <<posted_ids, alerts, alert_feeds, alert_entities,
             alerts_to_post, idx, posted_count, fetched, loaded, log>>

histVars == <<durable, pubCount, tainted, prev>>

NoPrev == [snapshot |-> FALSE, allok |-> FALSE, failed |-> {}]

\* window: what is_within_operating_hours answered; failed_feeds: the feeds
\* whose request or decoding raised; fatal: what made __init__ raise;
\* rested: time.sleep has run since the last send_post that returned
NoEnv == [window |-> "unread", failed_feeds |-> {}, fatal |-> "none",
          rested |-> TRUE]

\* no call of format_alert is being looked at
NoCall == [state |-> "none"]

\* the in-memory state of a process that has not started
Blank ==
  /\ ppc = "none"
  /\ posted_ids = {}
  /\ alerts = <<>>
  /\ alert_feeds = <<>>
  /\ alert_entities = <<>>
  /\ alerts_to_post = <<>>
  /\ idx = 0
  /\ posted_count = 0
  /\ fetched = {}
  /\ loaded = {}
  /\ log = <<>>
  /\ env = NoEnv

Init ==
  /\ pc = "off"
  /\ Blank
  /\ call = NoCall
  /\ feed \in Feeds
  /\ disk \in {NoFile, Corrupt} \cup {JsonFile(S) : S \in SUBSET ServedHashes}
  /\ durable = Readable(disk)
  /\ pubCount = [h \in Hashes |-> 0]
  /\ tainted = FALSE
  /\ prev = NoPrev

\* ------------------------------------------------- the steps of one poll
\* fetch_alerts: the feeds are read in declaration order; a feed whose
\* request or decoding raises contributes nothing
RECURSIVE fetch_from(_, _, _)
fetch_from(k, f, failing) ==
  IF k > Len(FeedTypes) THEN <<>>
  ELSE LET feed_type == FeedTypes[k]
           feed_alerts == IF feed_type \in failing THEN <<>>
                          ELSE [n \in 1..Len(f[feed_type]) |->
                                  <<feed_type, f[feed_type][n]>>]
       IN  feed_alerts \o fetch_from(k + 1, f, failing)

\* one try block around the whole loop would drop every feed on an error
fetch_alerts_abort(f, failing) ==
  IF failing # {} THEN <<>> ELSE fetch_from(1, f, failing)

fetch_alerts(f, failing) == fetch_from(1, f, failing)

\* a dict is a sequence of [key, value] in insertion order
Keys(d) == {d[k].key : k \in 1..Len(d)}
Get(d, key) == (CHOOSE k \in 1..Len(d) : d[k].key = key)
Value(d, key) == d[Get(d, key)].value

\* one pass of the loop, were alert_entities assigned outside the "if"
merge_record_last(acc, rec) ==
  LET feed_type == rec[1]
      entity == rec[2]
      alert_hash == get_alert_hash(entity)
      fresh == alert_hash \notin Keys(acc.alert_feeds)
      feeds1 == IF fresh
                THEN Append(acc.alert_feeds, [key |-> alert_hash, value |-> <<>>])
                ELSE acc.alert_feeds
      ents1 == IF fresh
               THEN Append(acc.alert_entities, [key |-> alert_hash, value |-> entity])
               ELSE [acc.alert_entities EXCEPT
                       ![Get(acc.alert_entities, alert_hash)].value = entity]
      at == Get(feeds1, alert_hash)
  IN  [alert_feeds |-> [feeds1 EXCEPT ![at].value = Append(@, feed_type)],
       alert_entities |-> ents1]

\* one pass of the loop "for feed_type, entity in alerts"
merge_record(acc, rec) ==
  LET feed_type == rec[1]
      entity == rec[2]
      alert_hash == get_alert_hash(entity)
      fresh == alert_hash \notin Keys(acc.alert_feeds)
      feeds1 == IF fresh
                THEN Append(acc.alert_feeds, [key |-> alert_hash, value |-> <<>>])
                ELSE acc.alert_feeds
      ents1 == IF fresh
               THEN Append(acc.alert_entities, [key |-> alert_hash, value |-> entity])
               ELSE acc.alert_entities
      at == Get(feeds1, alert_hash)
  IN  [alert_feeds |-> [feeds1 EXCEPT ![at].value = Append(@, feed_type)],
       alert_entities |-> ents1]

RECURSIVE merge_alerts(_)
merge_alerts(recs) ==
  IF recs = <<>> THEN [alert_feeds |-> <<>>, alert_entities |-> <<>>]
  ELSE merge_record(merge_alerts(SubSeq(recs, 1, Len(recs) - 1)), recs[Len(recs)])

\* sort_key = int(entity.id) if entity.id.isdigit() else 0
sort_key(entity) == IF isdigit(Entity[entity].id) THEN int(Entity[entity].id) ELSE 0

\* "if alert_hash not in self.posted_ids"
is_new_always(alert_hash, posted) == TRUE

is_new(alert_hash, posted) == alert_hash \notin posted

\* the loop that builds alerts_to_post, in the order of alert_feeds
RECURSIVE filter_new(_, _, _)
filter_new(feeds, ents, posted) ==
  IF feeds = <<>> THEN <<>>
  ELSE LET alert_hash == Head(feeds).key
           entity == Value(ents, alert_hash)
           rest == filter_new(Tail(feeds), ents, posted)
       IN  IF is_new(alert_hash, posted)
           THEN <<[sort_key |-> sort_key(entity), alert_hash |-> alert_hash,
                   feed_types |-> Head(feeds).value, entity |-> entity]>> \o rest
           ELSE rest

\* whether x, taken later from the list, stays behind y
stays_behind_strict(y, x) == y.sort_key < x.sort_key

stays_behind(y, x) == y.sort_key <= x.sort_key

\* list.sort(key=lambda x: x[0]): ascending and stable
RECURSIVE insert_sorted(_, _)
insert_sorted(sorted, x) ==
  IF sorted = <<>> THEN <<x>>
  ELSE IF stays_behind(sorted[Len(sorted)], x) THEN Append(sorted, x)
  ELSE Append(insert_sorted(SubSeq(sorted, 1, Len(sorted) - 1), x), sorted[Len(sorted)])

RECURSIVE sort_alerts(_)
sort_alerts(s) ==
  IF s = <<>> THEN <<>>
  ELSE insert_sorted(sort_alerts(SubSeq(s, 1, Len(s) - 1)), s[Len(s)])

\* the try block of the posting loop: posted_ids.add and save_posted_ids
\* are reached only when send_post has returned
marks_always(sent) == TRUE

marks(sent) == sent

\* the except clause of the posting loop: the error is printed and the
\* for loop goes on with the next of the n alerts
on_error_break(i, n) == n + 1

on_error_stay(i, n) == i

on_error(i, n) == i + 1

\* self.posted_ids.add(alert_hash)
add_forgotten(posted, alert_hash) == posted

add(posted, alert_hash) == posted \cup {alert_hash}

\* load_posted_ids
load_posted_ids(d) == IF d.kind = "absent" THEN {} ELSE d.data

\* load_posted_ids lets every exception but FileNotFoundError through
load_raises_never(d) == FALSE

load_raises(d) == d.kind = "corrupt"

\* __init__: the first statement that raises, if any
init_error(credentials, d, login) ==
  IF ~credentials THEN "credentials"
  ELSE IF load_raises(d) THEN "ledger"
  ELSE IF ~login THEN "login"
  ELSE "none"

\* is_within_operating_hours, for the Eastern hour of the clock
is_within_operating_hours(hour) == ~(hour < 5)

\* run(): "if not self.is_within_operating_hours(): return 0"
after_gate_always(within) == "fetching"

after_gate(within) == IF within THEN "fetching" ELSE "done"

\* --------------------------------------------------------- history helpers
SentOK == {log[k].alert_hash : k \in {n \in 1..Len(log) : log[n].ok}}
Failed == {log[k].alert_hash : k \in {n \in 1..Len(log) : ~log[n].ok}}
NumOK == Cardinality({n \in 1..Len(log) : log[n].ok})

Bump(c) == IF c < MaxPub THEN c + 1 ELSE c

\* what is remembered of a run once its process is gone
Remember(status) ==
  LET snap == status = "done" /\ fetched = {"bus", "train"}
              /\ alerts = fetch_alerts(feed, {})
  IN  prev' = [snapshot |-> snap,
               allok |-> snap /\ Failed = {} /\ posted_count = NumOK,
               failed |-> Failed]

Reset ==
  /\ ppc' = "none"
  /\ posted_ids' = {}
  /\ alerts' = <<>>
  /\ alert_feeds' = <<>>
  /\ alert_entities' = <<>>
  /\ alerts_to_post' = <<>>
  /\ idx' = 0
  /\ posted_count' = 0
  /\ fetched' = {}
  /\ loaded' = {}
  /\ log' = <<>>
  /\ env' = NoEnv

Running == pc \in {"idle", "fetching", "merging", "filtering", "posting"}

\* ------------------------------------------------------------ the actions
\* __main__ and __init__: credentials, ledger load, login
StartProcess ==
  /\ pc \in {"off", "crashed"}
  /\ \E credentials \in BOOLEAN, login \in BOOLEAN :
       LET error == init_error(credentials, disk, login) IN
       /\ env' = [env EXCEPT !.fatal = error]
       /\ IF error = "none"
          THEN /\ pc' = "idle"
               /\ posted_ids' = load_posted_ids(disk)
               /\ loaded' = load_posted_ids(disk)
          ELSE /\ pc' = "fatal"
               /\ UNCHANGED <<posted_ids, loaded>>
  /\ UNCHANGED <<ppc, feed, disk, alerts, alert_feeds, alert_entities,
                 alerts_to_post, idx, posted_count, fetched, log, histVars,
                 call>>

\* run(): the operating-hours gate
CheckHours ==
  /\ pc = "idle"
  /\ \E hour \in 0..23 :
       /\ pc' = after_gate(is_within_operating_hours(hour))
       /\ env' = [env EXCEPT !.window =
                    IF is_within_operating_hours(hour) THEN "open" ELSE "closed"]
  /\ UNCHANGED <<ppc, feed, disk, runVars, histVars, call>>

\* run(): alerts = self.fetch_alerts(), and the early return on no alerts
Fetch ==
  /\ pc = "fetching"
  /\ \E failing \in SUBSET {"bus", "train"} :
       /\ alerts' = fetch_alerts(feed, failing)
       /\ pc' = IF alerts' = <<>> THEN "done" ELSE "merging"
       /\ env' = [env EXCEPT !.failed_feeds = failing]
  /\ fetched' = {"bus", "train"}
  /\ UNCHANGED <<ppc, feed, disk, posted_ids, alert_feeds, alert_entities,
                 alerts_to_post, idx, posted_count, loaded, log, histVars,
                 call>>

\* run(): grouping the records by hash
Merge ==
  /\ pc = "merging"
  /\ alert_feeds' = merge_alerts(alerts).alert_feeds
  /\ alert_entities' = merge_alerts(alerts).alert_entities
  /\ pc' = "filtering"
  /\ UNCHANGED <<ppc, feed, disk, posted_ids, alerts, alerts_to_post, idx,
                 posted_count, fetched, loaded, log, histVars, env, call>>

\* run(): building and sorting alerts_to_post
Filter ==
  /\ pc = "filtering"
  /\ alerts_to_post' = sort_alerts(filter_new(alert_feeds, alert_entities, posted_ids))
  /\ pc' = "posting"
  /\ ppc' = "send"
  /\ idx' = 1
  /\ posted_count' = 0
  /\ UNCHANGED <<feed, disk, posted_ids, alerts, alert_feeds, alert_entities,
                 fetched, loaded, log, histVars, env, call>>

\* posting loop: format_alert and client.send_post
Publish ==
  /\ pc = "posting" /\ ppc = "send" /\ idx <= Len(alerts_to_post)
  /\ \E sent \in BOOLEAN :
       LET alert_hash == alerts_to_post[idx].alert_hash
           post_text == format_alert(alerts_to_post[idx].entity,
                                     alerts_to_post[idx].feed_types)
       IN
       /\ log' = Append(log, [alert_hash |-> alert_hash, ok |-> sent,
                              post_text |-> post_text])
       /\ pubCount' = IF sent /\ ~tainted
                      THEN [pubCount EXCEPT ![alert_hash] = Bump(@)]
                      ELSE pubCount
       /\ IF marks(sent)
          THEN ppc' = "save" /\ idx' = idx
          ELSE ppc' = "send" /\ idx' = on_error(idx, Len(alerts_to_post))
       /\ env' = [env EXCEPT !.rested = IF sent THEN FALSE ELSE @]
  /\ UNCHANGED <<pc, feed, disk, posted_ids, alerts, alert_feeds,
                 alert_entities, alerts_to_post, posted_count, fetched,
                 loaded, durable, tainted, prev, call>>

\* posting loop: posted_ids.add, then save_posted_ids opens the file for
\* writing, which empties it
OpenLedger ==
  /\ pc = "posting" /\ ppc = "save"
  /\ posted_ids' = add(posted_ids, alerts_to_post[idx].alert_hash)
  /\ \E ok \in BOOLEAN :
       IF ok
       THEN /\ disk' = Corrupt
            /\ ppc' = "dump"
            /\ idx' = idx
            /\ tainted' = tainted
       ELSE /\ disk' = disk
            /\ ppc' = "send"
            /\ idx' = on_error(idx, Len(alerts_to_post))
            /\ tainted' = TRUE
  /\ UNCHANGED <<pc, feed, alerts, alert_feeds, alert_entities,
                 alerts_to_post, posted_count, fetched, loaded, log, durable,
                 pubCount, prev, env, call>>

\* posting loop: json.dump and close, posted_count += 1, the sleep test
DumpLedger ==
  /\ pc = "posting" /\ ppc = "dump"
  /\ \E ok \in BOOLEAN :
       IF ok
       THEN /\ disk' = JsonFile(posted_ids)
            /\ durable' = posted_ids
            /\ posted_count' = posted_count + 1
            /\ IF posted_count' < Len(alerts_to_post)
               THEN ppc' = "sleep" /\ idx' = idx
               ELSE ppc' = "send" /\ idx' = idx + 1
            /\ tainted' = tainted
       ELSE /\ disk' = Corrupt
            /\ durable' = durable
            /\ posted_count' = posted_count
            /\ ppc' = "send"
            /\ idx' = on_error(idx, Len(alerts_to_post))
            /\ tainted' = TRUE
  /\ UNCHANGED <<pc, feed, posted_ids, alerts, alert_feeds, alert_entities,
                 alerts_to_post, fetched, loaded, log, pubCount, prev, env,
                 call>>

\* posting loop: time.sleep(3)
Sleep ==
  /\ pc = "posting" /\ ppc = "sleep"
  /\ ppc' = "send"
  /\ idx' = idx + 1
  /\ env' = [env EXCEPT !.rested = TRUE]
  /\ UNCHANGED <<pc, feed, disk, posted_ids, alerts, alert_feeds,
                 alert_entities, alerts_to_post, posted_count, fetched,
                 loaded, log, histVars, call>>

\* run(): the loop is exhausted, the summary is printed, posted_count returned
LoopExit ==
  /\ pc = "posting" /\ ppc = "send" /\ idx > Len(alerts_to_post)
  /\ pc' = "done"
  /\ ppc' = "none"
  /\ UNCHANGED <<feed, disk, runVars, histVars, env, call>>

\* the process ends (return from run, or exit(1))
Exit ==
  /\ pc \in {"done", "fatal"}
  /\ Remember(pc)
  /\ pc' = "off"
  /\ Reset
  /\ UNCHANGED <<feed, disk, durable, pubCount, tainted, call>>

\* the process is killed while running
Crash ==
  /\ Running
  /\ Remember("crashed")
  /\ pc' = "crashed"
  /\ tainted' = TRUE
  /\ Reset
  /\ UNCHANGED <<feed, disk, durable, pubCount, call>>

\* the agency changes what its feeds serve, between two invocations
UpdateFeed ==
  /\ pc \in {"off", "crashed"}
  /\ \E f \in Feeds : f # feed /\ feed' = f
  /\ prev' = [prev EXCEPT !.snapshot = FALSE, !.allok = FALSE]
  /\ UNCHANGED <<pc, ppc, disk, runVars, durable, pubCount, tainted, env,
                 call>>

Step ==
  \/ StartProcess \/ CheckHours \/ Fetch \/ Merge \/ Filter
  \/ Publish \/ OpenLedger \/ DumpLedger \/ Sleep \/ LoopExit \/ Exit

Next == Step \/ Crash \/ UpdateFeed

Spec == Init /\ [][Next]_vars

\* ------------------------------------------------ a single poll, in detail
\* the record lists fetch_alerts can return from feeds serving any entities
PollAlerts(n) ==
  {fetch_alerts(f, {}) :
     f \in {g \in [{"bus", "train"} -> SeqsUpTo(Entities, n)] :
              Len(g["bus"]) + Len(g["train"]) \in 1..n}}

FeedOf(recs, feed_type) ==
  LET at == {k \in 1..Len(recs) : recs[k][1] = feed_type}
      first == IF at = {} THEN 1 ELSE CHOOSE k \in at : \A j \in at : k <= j
  IN  [n \in 1..Cardinality(at) |-> recs[first + n - 1][2]]

\* run() has fetched a non-empty list of records, with a ledger loaded
Polled(n, ledgers) ==
  /\ pc = "merging"
  /\ ppc = "none"
  /\ alerts \in PollAlerts(n)
  /\ feed = [t \in {"bus", "train"} |-> FeedOf(alerts, t)]
  /\ posted_ids \in ledgers
  /\ disk = JsonFile(posted_ids)
  /\ loaded = posted_ids
  /\ fetched = {"bus", "train"}
  /\ alert_feeds = <<>>
  /\ alert_entities = <<>>
  /\ alerts_to_post = <<>>
  /\ idx = 0
  /\ posted_count = 0
  /\ log = <<>>
  /\ durable = posted_ids
  /\ pubCount = [h \in Hashes |-> 0]
  /\ tainted = FALSE
  /\ prev = NoPrev
  /\ env = [NoEnv EXCEPT !.window = "open"]
  /\ call = NoCall

NextPoll ==
  \/ Merge \/ Filter \/ Publish \/ OpenLedger \/ DumpLedger \/ Sleep
  \/ LoopExit

InitPoll == Polled(MaxRecords, SUBSET Hashes)

PollSpec == InitPoll /\ [][NextPoll]_vars

InitQueue == Polled(MaxQueue, SUBSET ServedHashes)

\* the run is not killed: the interpreter keeps executing
QueueSpec == InitQueue /\ [][NextPoll]_vars /\ WF_vars(NextPoll)

\* ---------------------------------------------- format_alert on its own
\* the most words of a header, and how far under 297 characters the longest
\* descriptions start
MaxWords == 2
MaxSlack == 1

\* the words of the headers: an out-of-service mark, a route, a time of
\* day and a direction
Words ==
  << <<"O", "S">>, <<"6", "1", "C">>, <<"1", "1", "2", "6">>, <<"I", "B">> >>

\* alert.header_text.translation[0].text: up to MaxWords words, a space
\* between two of them
Phrase(p) ==
  Flatten([k \in 1..Len(p) |->
             IF k = 1 THEN Words[p[k]] ELSE <<" ">> \o Words[p[k]]])
Headers ==
  {Phrase(p) : p \in UNION {[1..k -> 1..Len(Words)] : k \in 0..MaxWords}}

\* alert.description_text.translation[0].text: none, or one long word that
\* brings the post to the limit of 300 characters
Filler(n) == [i \in 1..n |-> "x"]
Descriptions == {Filler(0)} \cup {Filler(TruncateAt - k) : k \in 0..MaxSlack}

\* feed_types: no feed, one feed, both feeds
FeedTypeArgs == {<<>>, <<"bus">>, <<"train">>, <<"bus", "train">>}

\* format_alert is called with an entity and feed_types
InitRender ==
  /\ pc = "off"
  /\ Blank
  /\ feed = [t \in {"bus", "train"} |-> <<>>]
  /\ disk = NoFile
  /\ durable = {}
  /\ pubCount = [h \in Hashes |-> 0]
  /\ tainted = FALSE
  /\ prev = NoPrev
  /\ call \in {[state |-> "called", header |-> header,
                 description |-> description, feed_types |-> feed_types] :
                header \in Headers, description \in Descriptions,
                feed_types \in FeedTypeArgs}

\* format_alert runs from its first line to "return text"
Render ==
  /\ call.state = "called"
  /\ call' = [state |-> "returned", header |-> call.header,
              description |-> call.description,
              feed_types |-> call.feed_types,
              stages |-> format_stages(call.header, call.description,
                                       call.feed_types)]
  /\ UNCHANGED <<pc, ppc, feed, disk, posted_ids, alerts, alert_feeds,
                 alert_entities, alerts_to_post, idx, posted_count, fetched,
                 loaded, log, durable, pubCount, tainted, prev, env>>

NextRender == Render

RenderSpec == InitRender /\ [][NextRender]_vars

\* ------------------------------------------------------------- properties
InRun == Running \/ pc = "done"
Filtered == pc = "posting" \/ (pc = "done" /\ idx > 0)

AlertHashes(recs) == {get_alert_hash(recs[k][2]) : k \in 1..Len(recs)}
SourcesOf(recs, h) ==
  {recs[k][1] : k \in {n \in 1..Len(recs) : get_alert_hash(recs[n][2]) = h}}
FirstSeen(recs, h) ==
  CHOOSE k \in 1..Len(recs) :
    /\ get_alert_hash(recs[k][2]) = h
    /\ \A j \in 1..(k - 1) : get_alert_hash(recs[j][2]) # h
QueueHashes == {alerts_to_post[k].alert_hash : k \in 1..Len(alerts_to_post)}

\* C1: during a run, every fingerprint that is in the posted set, in memory
\* or in the ledger file, and was not in the ledger this process loaded, is
\* one for which send_post has returned successfully earlier in this run.
C1_PostedOnlyAfterPublish ==
  InRun => ((posted_ids \cup Readable(disk)) \ loaded) \subseteq SentOK

\* a run that has recorded one published alert in memory and in the file
\* while another publish of the same run has failed
C1_Witness ==
  /\ InRun
  /\ (posted_ids \cap Readable(disk)) \ loaded # {}
  /\ Failed # {}

\* C2: as long as no run has crashed and no ledger write has failed, no
\* fingerprint has been published successfully more than once over all the
\* runs so far; in any run, a fingerprint of the loaded ledger is not in the
\* filtered list and is never published, and no fingerprint is published
\* twice.
C2_PublishedAtMostOnce ==
  /\ ~tainted => \A h \in Hashes : pubCount[h] <= 1
  /\ Filtered => QueueHashes \cap loaded = {}
  /\ SentOK \cap loaded = {}
  /\ \A j, k \in 1..Len(log) :
       (j # k /\ log[j].ok /\ log[k].ok) => log[j].alert_hash # log[k].alert_hash

\* a later run polls an alert that an earlier run has published: it is in
\* the loaded ledger and left out of the queue
C2_Witness ==
  /\ ~tainted
  /\ pc = "posting"
  /\ \E h \in AlertHashes(alerts) : pubCount[h] = 1 /\ h \in loaded /\ h \notin QueueHashes

\* C3, for a first run that succeeded throughout: when the previous run
\* fetched every feed of the current snapshot, reached the end, and all its
\* publish attempts and ledger writes succeeded, a run that fetches the same
\* snapshot has an empty filtered list and posts nothing.
C3_SecondRunPostsNothing ==
  (prev.allok /\ Filtered /\ alerts = fetch_alerts(feed, {}))
    => (alerts_to_post = <<>> /\ log = <<>> /\ posted_count = 0)

\* the second of two runs over the same non-empty snapshot, the first of
\* which published something
C3_Witness ==
  /\ prev.allok
  /\ Filtered
  /\ alerts = fetch_alerts(feed, {})
  /\ \E h \in AlertHashes(alerts) : pubCount[h] = 1 /\ h \in loaded

\* C3, for every first run that reached the end: whenever the previous run
\* fetched the current snapshot and reached the end, a run that fetches the
\* same snapshot has an empty filtered list.
C3_Original ==
  (prev.snapshot /\ Filtered /\ alerts = fetch_alerts(feed, {}))
    => alerts_to_post = <<>>

\* C4: a fingerprint whose publish attempt failed in this run is neither in
\* the in-memory posted set nor in the ledger file; a run that reaches the
\* end of its loop has attempted every alert of its queue; and a fingerprint
\* whose publish failed in the previous run is in the filtered list of this
\* run whenever this run has fetched it.
C4_FailedPublishRetried ==
  /\ InRun => Failed \cap (posted_ids \cup Readable(disk)) = {}
  /\ (pc = "done" /\ idx > 0) =>
       {log[k].alert_hash : k \in 1..Len(log)} = QueueHashes
  /\ Filtered => (prev.failed \cap AlertHashes(alerts)) \subseteq QueueHashes

\* a run that retries an alert whose publish failed in the previous run,
\* and in which a later alert is published after a failed one
C4_Witness ==
  /\ pc = "posting"
  /\ prev.failed \cap QueueHashes # {}
  /\ \E j, k \in 1..Len(log) : j < k /\ ~log[j].ok /\ log[k].ok

\* C5: when a run is killed, every fingerprint of the last completely
\* written ledger is still in the ledger file the next run will read.
C5_NoDurableLoss ==
  pc = "crashed" => durable \subseteq Readable(disk)

\* C6: at every point of a run in which no ledger write has failed, at most
\* one alert published in this run is missing from the ledger file.
C6_AtMostOneUnrecorded ==
  (Running /\ ~tainted) => Cardinality(SentOK \ Readable(disk)) <= 1

\* C7: after the merge, the keys of alert_feeds are exactly the fingerprints
\* of the fetched records, each key occurs once, and the value recorded for
\* a key lists each source that produced it once and no other.
C7_MergeComplete ==
  pc \in {"filtering", "posting"} =>
    /\ Keys(alert_feeds) = AlertHashes(alerts)
    /\ \A j, k \in 1..Len(alert_feeds) :
         j # k => alert_feeds[j].key # alert_feeds[k].key
    /\ \A k \in 1..Len(alert_feeds) :
         LET feed_types == alert_feeds[k].value
             sources == SourcesOf(alerts, alert_feeds[k].key)
         IN  /\ {feed_types[n] : n \in 1..Len(feed_types)} = sources
             /\ Len(feed_types) = Cardinality(sources)

\* C8: the text of a publish attempt starts with the bus and train emojis
\* exactly when more than one distinct source produced its fingerprint in
\* this poll; when a single source produced it, the text is the one
\* format_alert gives for that source alone.
C8_CombinedPrefixIffMultiSource ==
  \A k \in 1..Len(log) :
    LET sources == SourcesOf(alerts, log[k].alert_hash)
        post_text == log[k].post_text
        combined == Len(post_text) >= 2 /\ SubSeq(post_text, 1, 2) = <<BUS, TRAIN>>
    IN  /\ combined <=> Cardinality(sources) > 1
        /\ \A feed_type \in sources :
             sources = {feed_type} =>
               post_text = format_alert(Value(alert_entities, log[k].alert_hash),
                                        <<feed_type>>)

\* the sort key the ordering policy gives a fingerprint: the id of the
\* first record seen with it, as an integer when all digits, else 0
PolicyKey(h) ==
  LET id == Entity[alerts[FirstSeen(alerts, h)][2]].id
  IN  IF isdigit(id) THEN int(id) ELSE 0

\* C9: of two publish attempts of a run, the earlier one has the smaller
\* sort key, or the same sort key and a fingerprint seen earlier in the
\* fetched records.
C9_AttemptOrder ==
  \A j, k \in 1..Len(log) :
    j < k =>
      LET a == log[j].alert_hash
          b == log[k].alert_hash
      IN  \/ PolicyKey(a) < PolicyKey(b)
          \/ /\ PolicyKey(a) = PolicyKey(b)
             /\ FirstSeen(alerts, a) < FirstSeen(alerts, b)

\* three attempts: two with equal keys, and one moved behind an alert that
\* was seen after it
C9_Witness ==
  /\ Len(log) = 3
  /\ \E j, k \in 1..Len(log) :
       j < k /\ PolicyKey(log[j].alert_hash) = PolicyKey(log[k].alert_hash)
  /\ \E j, k \in 1..Len(log) :
       /\ j < k
       /\ FirstSeen(alerts, log[j].alert_hash) > FirstSeen(alerts, log[k].alert_hash)

\* C10: the attempts of a run are the alerts of the filtered list, in order
\* and once each, all of them once the run is done; the loop position moves
\* by one, and it does so after a failed attempt; a run that is posting
\* reaches done.
C10_QueueIsWorkedOff ==
  /\ [](Filtered =>
          /\ Len(log) <= Len(alerts_to_post)
          /\ \A k \in 1..Len(log) : log[k].alert_hash = alerts_to_post[k].alert_hash
          /\ pc = "done" => Len(log) = Len(alerts_to_post))
  /\ [][(pc = "posting" /\ idx' # idx) => idx' = idx + 1]_vars
  /\ [][(pc = "posting" /\ Len(log') > Len(log) /\ ~log'[Len(log')].ok)
          => idx' = idx + 1]_vars
  /\ (pc = "posting") ~> (pc = "done")

\* a finished run in which an attempt failed and a later one succeeded
C10_Witness ==
  /\ pc = "done"
  /\ Len(log) = 2
  /\ ~log[1].ok /\ log[2].ok

\* the value run() returns: 0 at the early returns, else posted_count
Reported == posted_count

\* C11: the value a finished run reports is the number of alerts for which
\* send_post returned during the run, whatever the publish and ledger-write
\* outcomes were.
C11_ReportsSuccessfulPosts ==
  pc = "done" => Reported = NumOK

\* the records of feed type t as fetch_alerts tags them
RecordsOf(t) == [n \in 1..Len(feed[t]) |-> <<t, feed[t][n]>>]

\* the records of the feeds that did not fail, bus before train
Surviving ==
  (IF "bus" \in env.failed_feeds THEN <<>> ELSE RecordsOf("bus"))
    \o (IF "train" \in env.failed_feeds THEN <<>> ELSE RecordsOf("train"))

\* C12, when a record is left: the fetch step returns the records of the
\* feeds that did not fail, in declaration order; the run goes on to merging
\* when that list is not empty, and ends at done by the no-alert return,
\* reporting 0, when it is empty.
C12_FailedFeedSkipped ==
  [][(pc = "fetching" /\ pc' \notin {"fetching", "crashed"})
       => /\ alerts' = Surviving'
          /\ pc' = IF alerts' # <<>> THEN "merging" ELSE "done"
          /\ posted_count' = 0]_vars

\* a run that goes on to merging with the records of the train feed after
\* the bus feed, which serves an alert, failed
C12_Witness ==
  /\ pc = "merging"
  /\ env.failed_feeds = {"bus"}
  /\ feed["bus"] # <<>>
  /\ alerts = RecordsOf("train")

\* C12, in every case: after a fetch in which a feed failed, the fetch step
\* has returned the records of the other feeds and the run is merging.
C12_Original ==
  [][(pc = "fetching" /\ pc' \notin {"fetching", "crashed"}
        /\ env'.failed_feeds # {})
       => (alerts' = Surviving' /\ pc' = "merging")]_vars

\* C13: when is_within_operating_hours has answered no, the run is done
\* with no feed requested, no publish attempted, nothing posted, and the
\* ledger in memory and on disk as it was loaded.
C13_ClosedWindowSkipsRun ==
  /\ [](env.window = "closed" =>
          /\ pc = "done"
          /\ fetched = {}
          /\ alerts = <<>>
          /\ log = <<>>
          /\ Reported = 0
          /\ posted_ids = loaded)
  /\ [][env'.window = "closed" => disk' = disk]_vars

\* a run stopped by the gate although its ledger holds a fingerprint
C13_Witness ==
  /\ env.window = "closed"
  /\ loaded # {}

\* C14: a process starts with the empty set when the ledger file is absent
\* and never aborts because of an absent file; with an unreadable file it
\* aborts, and an aborted process has requested no feed, attempted no
\* publish and left the file as it was.
C14_LedgerLoad ==
  /\ [](env.fatal = "ledger" => disk.kind = "corrupt")
  /\ [](pc = "fatal" => (fetched = {} /\ alerts = <<>> /\ log = <<>>))
  /\ [][pc' = "fatal" => disk' = disk]_vars
  /\ [][(pc \in {"off", "crashed"} /\ pc' = "idle")
          => /\ disk.kind # "corrupt"
             /\ disk.kind = "absent" => posted_ids' = {}
             /\ posted_ids' = Readable(disk)
             /\ disk' = disk]_vars
  /\ [][(pc \in {"off", "crashed"} /\ disk.kind = "corrupt" /\ pc' # pc)
          => pc' = "fatal"]_vars

\* a process that aborted on an unreadable ledger file
C14_Witness ==
  /\ pc = "fatal"
  /\ env.fatal = "ledger"
  /\ disk.kind = "corrupt"

\* C17: a send_post that returns after an earlier send_post of the run has
\* returned is preceded by a time.sleep that ran after that earlier one.
C17_DelayBetweenPosts ==
  [][(Len(log') > Len(log) /\ log'[Len(log')].ok /\ SentOK # {})
       => env.rested]_vars

\* C19: the entity kept for a fingerprint, by the merge and in the queue,
\* is the one of the first fetched record with that fingerprint, and the
\* sort key of the queue entry is the key of that entity.
C19_FirstRecordRepresents ==
  /\ pc \in {"filtering", "posting", "done"} =>
       \A k \in 1..Len(alert_entities) :
         alert_entities[k].value =
           alerts[FirstSeen(alerts, alert_entities[k].key)][2]
  /\ \A k \in 1..Len(alerts_to_post) :
       LET first == alerts[FirstSeen(alerts, alerts_to_post[k].alert_hash)][2]
       IN  /\ alerts_to_post[k].entity = first
           /\ alerts_to_post[k].sort_key = PolicyKey(alerts_to_post[k].alert_hash)

\* a queue entry whose fingerprint came first with one entity and later
\* with another one, of a different id
C19_Witness ==
  /\ pc = "posting"
  /\ \E k \in 1..Len(alerts_to_post), j \in 1..Len(alerts) :
       /\ get_alert_hash(alerts[j][2]) = alerts_to_post[k].alert_hash
       /\ alerts[j][2] # alerts_to_post[k].entity
       /\ Entity[alerts[j][2]].id # Entity[alerts_to_post[k].entity].id

\* C20: as long as no send_post of the run has returned, the posted set in
\* memory is the loaded one and no step of the run changes the ledger file.
C20_NoPublishNoWrite ==
  /\ []((InRun /\ SentOK = {}) => posted_ids = loaded)
  /\ [][(InRun /\ InRun' /\ SentOK' = {}) => disk' = disk]_vars

\* a finished run all of whose publish attempts failed
C20_Witness ==
  /\ pc = "done"
  /\ Failed # {}
  /\ SentOK = {}
  /\ loaded # {}

\* t begins with the characters of p
StartsWith(t, p) == Len(t) >= Len(p) /\ SubSeq(t, 1, Len(p)) = p

\* the feed emoji format_alert chose for the call
FeedEmojiOf(c) == feed_emoji(c.feed_types, c.stages.unique_routes)

\* C15: the text format_alert returns has between 1 and 300 characters,
\* for every header, description and feed_types; it is the annotated text
\* when that has at most 300 characters, and the first 297 characters of
\* the annotated text followed by three dots when it has more.
C15_PostLength ==
  call.state = "returned" =>
    LET s == call.stages
    IN  /\ Len(s.post_text) >= 1
        /\ Len(s.post_text) <= PostLimit
        /\ Len(s.text) <= PostLimit => s.post_text = s.text
        /\ Len(s.text) > PostLimit =>
             s.post_text = SubSeq(s.text, 1, TruncateAt) \o <<".", ".", ".">>

\* a call whose annotated text is one character over the limit
C15_Witness ==
  /\ call.state = "returned"
  /\ Len(call.stages.text) = PostLimit + 1
  /\ Len(call.stages.post_text) = PostLimit

\* C16, feed emoji first: the text returned for an out-of-service alert
\* that gets a feed emoji begins with the feed emoji, a space, the warning
\* emoji and a space.
C16_FeedEmojiThenWarning ==
  (call.state = "returned" /\ call.stages.is_out_of_service
     /\ FeedEmojiOf(call) # <<>>)
    => StartsWith(call.stages.post_text,
                  FeedEmojiOf(call) \o <<" ", "[warn]", "[vs16]", " ">>)

\* an out-of-service alert of the bus feed without a known route
C16_Witness ==
  /\ call.state = "returned"
  /\ call.stages.is_out_of_service
  /\ call.feed_types = <<"bus">>
  /\ FeedEmojiOf(call) = <<BUS>>

\* C16, warning first: the text returned for an out-of-service alert that
\* gets a feed emoji begins with the warning emoji, a space, the feed emoji
\* and a space.
C16_Original ==
  (call.state = "returned" /\ call.stages.is_out_of_service
     /\ FeedEmojiOf(call) # <<>>)
    => StartsWith(call.stages.post_text,
                  <<"[warn]", "[vs16]", " ">> \o FeedEmojiOf(call) \o <<" ">>)

\* C18: the routes format_alert works with are the known routes among the
\* tokens of the text as it is after the newline clean-up, before any
\* substitution.
C18_RoutesOfCleanText ==
  call.state = "returned" =>
    call.stages.unique_routes = unique_routes(call.stages.clean_text)
====
